---- MODULE Spec2Model ----
(***************************************************************************)
(* A model of @pidchashyi/try-catch (src/src/index.ts): the global         *)
(* configuration store, error normalisation, the Result helpers and the    *)
(* four executors tryCatchSync, tryCatch, tryCatchAll and tryCatchAllSafe. *)
(*                                                                         *)
(* One executor invocation is in progress at a time.  An asynchronous      *)
(* executor is a coroutine: every action below is the code that runs       *)
(* between two suspension points (an await of the operation, of            *)
(* Promise.all / Promise.allSettled, or of sleep).  The environment        *)
(* settles pending promises and fires the sleep timer.  What the executor  *)
(* does to the outside world (awaiting the operation, console.error, the   *)
(* user callbacks, handing back its outcome) is recorded, in order, in     *)
(* `events`.                                                               *)
(*                                                                         *)
(* Spec is the store and the executors.  HelperSpec applies the pure       *)
(* helpers toError, getErrorMessage and map to arguments drawn at the      *)
(* start.                                                                  *)
(***************************************************************************)
EXTENDS Integers, Sequences, FiniteSets, TLC

VARIABLES
    globalTryCatchConfig, \* the module-level store (index.ts line 174)
    lastConfig,           \* the argument of the latest setGlobalTryCatchConfig call
    executor,             \* which executor the current invocation runs
    pc,                   \* where that invocation stands
    promises,             \* the pending operations handed to the executor
    completed,            \* indices of the settled `promises`, in the order in which they settled
    settledAtCall,        \* the indices of `promises` that were settled at the call
    options,              \* the local options argument of the invocation
    globalConfig,         \* the invocation's read of the store (const globalConfig)
    mergedOptions,        \* const mergedOptions
    attempt,              \* let attempt (tryCatch)
    events,               \* observable effects of the invocation, in order
    outcome,              \* what the invocation handed back to its caller
    call                  \* a call of a pure helper (toError, getErrorMessage, map) and its result

vars == <<globalTryCatchConfig, lastConfig, executor, pc, promises, completed, settledAtCall,
          options, globalConfig, mergedOptions, attempt, events, outcome, call>>

----------------------------------------------------------------------------
(* Bounds of the model *)

MaxRetries == 3      \* retry.retries ranges over 0..MaxRetries
MaxBatch == 3        \* a batch holds 0..MaxBatch operations

----------------------------------------------------------------------------
(* JavaScript values.  Every value is a record tagged by `type`. *)

Null == [type |-> "null"]
Num(n) == [type |-> "number", val |-> n]
Str(s) == [type |-> "string", val |-> s]
Arr(s) == [type |-> "array", items |-> s]
\* an Error instance; `origin` tells the `new Error(...)` site that made it
Err(m, o) == [type |-> "Error", message |-> m, origin |-> o]
\* a plain object that carries a message but is no Error instance
Duck(m) == [type |-> "object", message |-> m]

IsNull(v) == v.type = "null"
IsError(v) == v.type = "Error"

Digit(d) == CASE d = 0 -> "0" [] d = 1 -> "1" [] d = 2 -> "2" [] d = 3 -> "3"
              [] d = 4 -> "4" [] d = 5 -> "5" [] d = 6 -> "6" [] d = 7 -> "7"
              [] d = 8 -> "8" [] d = 9 -> "9"

RECURSIVE NumberToString(_)
\* String(n) of a non-negative integer: its decimal digits
NumberToString(n) == IF n < 10 THEN Digit(n)
                     ELSE NumberToString(n \div 10) \o Digit(n % 10)

\* String(v), as `new Error(String(error))` applies it
String(v) == CASE v.type = "string" -> v.val
               [] v.type = "number" -> NumberToString(v.val)
               [] v.type = "null" -> "null"
               [] v.type = "object" -> "[object Object]"
               [] v.type = "Error" -> "Error: " \o v.message

\* variant of toError: anything that carries a message is passed through
toErrorByMessage(error) ==
    IF "message" \in DOMAIN error THEN error ELSE Err(String(error), "toError")

\* variant of toError: new Error(String(error)) whatever the argument
toErrorAlwaysWraps(error) == Err(String(error), "toError")

\* error instanceof Error ? error : new Error(String(error))
toError(error) == IF IsError(error) THEN error ELSE Err(String(error), "toError")

getErrorMessage(error) == toError(error).message

----------------------------------------------------------------------------
(* Results *)

\* `result.performance = ...` is assigned only when trackPerformance is truthy
WithPerformance(r, track) == IF track THEN r @@ [performance |-> "elapsed"] ELSE r

Success(d) == [status |-> "success", data |-> d, error |-> Null]
\* variant of Failure: the literal carries the tag of the Success literal
FailureTaggedSuccess(e) == [status |-> "success", data |-> Null, error |-> e]
Failure(e) == [status |-> "failure", data |-> Null, error |-> e]

isSuccess(result) == result.status = "success"
isFailure(result) == result.status = "failure"

\* the sample transform handed to select: x => x + 10
Plus10(v) == Num(v.val + 10)

\* variant of map: the transform is applied whatever the status
mapWhateverStatus(result, fn) == Success(fn[result.data])

\* fn is a function over the values: fn[v] is fn(v)
map(result, fn) == IF isSuccess(result) THEN Success(fn[result.data]) ELSE result

----------------------------------------------------------------------------
(* Options.  A Partial<TryCatchOptions> is a record over a subset of the    *)
(* option keys; a key that is absent is not in its DOMAIN.  A callback is   *)
(* named by a string; the name tells who supplied it and what it does.      *)

Has(o, k) == k \in DOMAIN o

\* callbacks that raise when invoked
Throws(cb) == cb \in {"l_throw", "g_throw", "sel_throw"}
\* what a raising callback raises
CallbackError(cb) == Err(cb \o " raised", "user")

\* variant of Merge: the spread in the opposite order, { ...options, ...globalConfig }
MergeGlobalWins(g, o) == [k \in DOMAIN g \cup DOMAIN o |-> IF k \in DOMAIN g THEN g[k] ELSE o[k]]

\* the object spread { ...globalConfig, ...(options || {}) }
Merge(g, o) == [k \in DOMAIN g \cup DOMAIN o |-> IF k \in DOMAIN o THEN o[k] ELSE g[k]]

\* truthiness tests of the destructured options
LogError(o) == Has(o, "logError") /\ o.logError
TrackPerformance(o) == Has(o, "performance") /\ o.performance
DelayMs(o) == IF Has(o, "retry") /\ Has(o.retry, "delayMs") THEN o.retry.delayMs ELSE 0

\* variant of MaxRetriesOf: retry?.retries ?? 0
MaxRetriesOfDefault0(o) == IF Has(o, "retry") THEN o.retry.retries ELSE 0

\* const maxRetries = retry?.retries ?? 1
MaxRetriesOf(o) == IF Has(o, "retry") THEN o.retry.retries ELSE 1

\* S, and S with every member extended by key k bound to a value of V
Extend(S, k, V) == S \cup {c @@ (k :> v) : c \in S, v \in V}

----------------------------------------------------------------------------
(* Events and completions *)

AwaitEv == [ev |-> "await"]
SleepEv(ms) == [ev |-> "sleep", ms |-> ms]
\* the timer of sleep fired, which resolves the promise sleep returned
WakeEv == [ev |-> "wake"]
\* fn() was called and completed as c
FnEv(c) == [ev |-> "fn", completion |-> c]
SelectEv(cb) == [ev |-> "select", cb |-> cb]
LogEv(label, e) == [ev |-> "log", label |-> label, err |-> e]
OnErrorEv(cb, e) == [ev |-> "onError", cb |-> cb, err |-> e]
OnFinallyEv(cb) == [ev |-> "onFinally", cb |-> cb]
HandBackEv == [ev |-> "handback"]

\* a normal completion (return / fulfilled promise) or an abrupt one (throw / rejected promise)
Value(r) == [kind |-> "value", result |-> r]
Throw(e) == [kind |-> "throw", error |-> e]
NoOutcome == [kind |-> "none"]

\* how often, and where, the effect `name` occurs in a sequence of events
Count(s, name) == Cardinality({i \in DOMAIN s : s[i].ev = name})
Positions(s, name) == {i \in DOMAIN s : s[i].ev = name}

\* whether callback cb raises when it is invoked after the effects ev:
\* "l_throw_once" is an onError that raises at its first invocation only
Raises(cb, ev) == Throws(cb) \/ (cb = "l_throw_once" /\ Count(ev, "onError") = 0)

----------------------------------------------------------------------------
(* Pieces of code the executors share *)

\* variant of SelectAndBuild: select is never applied
SelectAndBuildIgnoresSelect(ev, data, o) ==
    [ev |-> ev, out |-> Value(WithPerformance(Success(data), TrackPerformance(o)))]

\* data => select ? select(data) : data, inside a try block:
\* a frame whose `out` is the Success built from the selected data, or the
\* exception select raised
SelectAndBuild(ev, data, o) ==
    IF Has(o, "select")
    THEN IF Throws(o.select)
         THEN [ev |-> Append(ev, SelectEv(o.select)), out |-> Throw(CallbackError(o.select))]
         ELSE [ev |-> Append(ev, SelectEv(o.select)),
               out |-> Value(WithPerformance(Success(Plus10(data)), TrackPerformance(o)))]
    ELSE [ev |-> ev, out |-> Value(WithPerformance(Success(data), TrackPerformance(o)))]

\* if (logError) console.error(label, processedError); onError?.(processedError)
\* `out` is Throw when onError raised, NoOutcome otherwise
LogAndNotify(ev, label, processedError, o) ==
    LET ev1 == IF LogError(o) THEN Append(ev, LogEv(label, processedError)) ELSE ev
    IN  IF Has(o, "onError")
        THEN [ev |-> Append(ev1, OnErrorEv(o.onError, processedError)),
              out |-> IF Raises(o.onError, ev1) THEN Throw(CallbackError(o.onError))
                      ELSE NoOutcome]
        ELSE [ev |-> ev1, out |-> NoOutcome]

\* variant of CatchBlock: an exception of onError is swallowed
CatchBlockSwallows(ev, label, error, o) ==
    [ev |-> LogAndNotify(ev, label, toError(error), o).ev,
     out |-> Value(WithPerformance(Failure(toError(error)), TrackPerformance(o)))]

\* variant of CatchBlock: catch (error) { throw error }
CatchBlockRethrows(ev, label, error, o) == [ev |-> ev, out |-> Throw(error)]

\* catch (error) { toError; log; onError; build Failure; return } of
\* tryCatchSync, tryCatchAll and tryCatchAllSafe
CatchBlock(ev, label, error, o) ==
    LET processedError == toError(error)
        f == LogAndNotify(ev, label, processedError, o)
    IN  IF f.out.kind = "throw" THEN f
        ELSE [ev |-> f.ev,
              out |-> Value(WithPerformance(Failure(processedError), TrackPerformance(o)))]

\* variant of FinallyBlock: no finally block
FinallyBlockSkipped(f, o) == f

\* finally { onFinally?.() }: runs on every completion; if it raises, its
\* exception replaces the completion
FinallyBlock(f, o) ==
    IF Has(o, "onFinally")
    THEN [ev |-> Append(f.ev, OnFinallyEv(o.onFinally)),
          out |-> IF Throws(o.onFinally) THEN Throw(CallbackError(o.onFinally)) ELSE f.out]
    ELSE f

----------------------------------------------------------------------------
(* Promises (pending operations) *)

Pending == [state |-> "pending", value |-> Null]
\* a pending operation that never settles
Hung == [state |-> "hung", value |-> Null]
Fulfilled(v) == [state |-> "fulfilled", value |-> v]
Rejected(r) == [state |-> "rejected", value |-> r]

IsSettled(p) == p.state \in {"fulfilled", "rejected"}

SettledIn(ps) == {i \in DOMAIN ps : IsSettled(ps[i])}

RECURSIVE Ascending(_)
\* the members of a set of numbers in ascending order
Ascending(S) ==
    IF S = {} THEN <<>>
    ELSE LET m == CHOOSE x \in S : \A y \in S : x <= y
         IN  <<m>> \o Ascending(S \ {m})

\* The order in which an executor that subscribes to the promises at the
\* call observes their settlements.  The reactions of the promises settled
\* at the call are queued at the subscription, which goes through the input
\* in index order; a promise that settles later is observed when it settles.
ObservationOrder(atCall, order) ==
    Ascending(atCall) \o SelectSeq(order, LAMBDA i : i \notin atCall)

----------------------------------------------------------------------------
(* setGlobalTryCatchConfig / getGlobalTryCatchConfig *)

getGlobalTryCatchConfig == globalTryCatchConfig

\* variant of setGlobalTryCatchConfig: the argument is merged into the store
setGlobalTryCatchConfigMerging(config) ==
    /\ globalTryCatchConfig' = Merge(globalTryCatchConfig, config)
    /\ lastConfig' = config
    /\ UNCHANGED <<executor, pc, promises, completed, settledAtCall, options, globalConfig,
                   mergedOptions, attempt, events, outcome, call>>

setGlobalTryCatchConfig(config) ==
    /\ globalTryCatchConfig' = config
    /\ lastConfig' = config
    /\ UNCHANGED <<executor, pc, promises, completed, settledAtCall, options, globalConfig,
                   mergedOptions, attempt, events, outcome, call>>

----------------------------------------------------------------------------
(* The end of every invocation: the finally block, then the hand-back *)

Finish(f, o) ==
    LET g == FinallyBlock(f, o)
    IN  /\ events' = Append(g.ev, HandBackEv)
        /\ outcome' = g.out
        /\ pc' = "done"

\* no invocation is in progress
CanCall == pc = "idle"

----------------------------------------------------------------------------
(* tryCatchSync(fn, options): fnCompletion is what fn() does, Value(v) when *)
(* it returns v and Throw(x) when it throws x                               *)

\* variant of tryCatchSyncBody: select is applied outside the try block
tryCatchSyncBodySelectOutside(fnCompletion, o) ==
    LET ev0 == <<FnEv(fnCompletion)>>
    IN  IF fnCompletion.kind = "value"
        THEN SelectAndBuild(ev0, fnCompletion.result, o)
        ELSE CatchBlock(ev0, "Error occurred:", fnCompletion.error, o)

tryCatchSyncBody(fnCompletion, o) ==
    LET ev0 == <<FnEv(fnCompletion)>>
        try == IF fnCompletion.kind = "value"
               THEN SelectAndBuild(ev0, fnCompletion.result, o)
               ELSE [ev |-> ev0, out |-> fnCompletion]
    IN  IF try.out.kind = "throw"
        THEN CatchBlock(try.ev, "Error occurred:", try.out.error, o)
        ELSE try

tryCatchSync(fnCompletion, opts) ==
    /\ CanCall
    /\ executor' = "tryCatchSync"
    /\ options' = opts
    /\ globalConfig' = getGlobalTryCatchConfig
    /\ mergedOptions' = Merge(getGlobalTryCatchConfig, opts)
    /\ promises' = <<>>
    /\ completed' = <<>>
    /\ settledAtCall' = {}
    /\ attempt' = 0
    /\ Finish(tryCatchSyncBody(fnCompletion, mergedOptions'), mergedOptions')
    /\ UNCHANGED <<globalTryCatchConfig, lastConfig, call>>

----------------------------------------------------------------------------
(* tryCatch(promiseFactory, options): the retry loop re-awaits the one      *)
(* promise it was given                                                     *)

\* the outer catch (index.ts 351-362): any exception that escapes the loop
\* becomes a Failure; nothing is logged and onError is not called
OuterCatch(ev, error, o) ==
    [ev |-> ev, out |-> Value(WithPerformance(Failure(toError(error)), TrackPerformance(o)))]

\* variant of LoopHead: do { ... } while (attempt < maxRetries)
LoopHeadAtLeastOnce(ev, att, o) ==
    IF att < MaxRetriesOf(o) \/ att = 0
    THEN /\ events' = Append(ev, AwaitEv)
         /\ pc' = "awaiting"
         /\ outcome' = NoOutcome
    ELSE Finish(OuterCatch(ev, Err("Unexpected retry failure", "tryCatch"), o), o)

\* while (attempt < maxRetries) { try { await promiseFactory ...
\* and, past the loop, throw new Error("Unexpected retry failure")
LoopHead(ev, att, o) ==
    IF att < MaxRetriesOf(o)
    THEN /\ events' = Append(ev, AwaitEv)
         /\ pc' = "awaiting"
         /\ outcome' = NoOutcome
    ELSE Finish(OuterCatch(ev, Err("Unexpected retry failure", "tryCatch"), o), o)

tryCatch(promise, opts) ==
    /\ CanCall
    /\ executor' = "tryCatch"
    /\ options' = opts
    /\ globalConfig' = getGlobalTryCatchConfig
    /\ mergedOptions' = Merge(getGlobalTryCatchConfig, opts)
    /\ promises' = <<promise>>
    /\ completed' = Ascending(SettledIn(<<promise>>))
    /\ settledAtCall' = SettledIn(<<promise>>)
    /\ attempt' = 0
    /\ LoopHead(<<>>, 0, mergedOptions')
    /\ UNCHANGED <<globalTryCatchConfig, lastConfig, call>>

\* variant of InnerCatch: onError is told of the last failed attempt only
InnerCatchNotifiesOnExhaustion(ev, error, att, o) ==
    LET processedError == toError(error)
        f == IF att >= MaxRetriesOf(o)
             THEN LogAndNotify(ev, "Error occurred:", processedError, o)
             ELSE [ev |-> ev, out |-> NoOutcome]
    IN  IF f.out.kind = "throw"
        THEN Finish(OuterCatch(f.ev, f.out.error, o), o)
        ELSE IF att >= MaxRetriesOf(o)
        THEN Finish([ev |-> f.ev,
                     out |-> Value(WithPerformance(Failure(processedError),
                                                   TrackPerformance(o)))], o)
        ELSE IF DelayMs(o) # 0
        THEN /\ events' = Append(f.ev, SleepEv(DelayMs(o)))
             /\ pc' = "sleeping"
             /\ outcome' = NoOutcome
        ELSE LoopHead(f.ev, att, o)

\* variant of InnerCatch: the delay comes before the test of the budget
InnerCatchDelaysFirst(ev, error, att, o) ==
    LET processedError == toError(error)
        f == LogAndNotify(ev, "Error occurred:", processedError, o)
    IN  IF f.out.kind = "throw"
        THEN Finish(OuterCatch(f.ev, f.out.error, o), o)
        ELSE IF DelayMs(o) # 0
        THEN /\ events' = Append(f.ev, SleepEv(DelayMs(o)))
             /\ pc' = "sleeping"
             /\ outcome' = NoOutcome
        ELSE IF att >= MaxRetriesOf(o)
        THEN Finish([ev |-> f.ev,
                     out |-> Value(WithPerformance(Failure(processedError),
                                                   TrackPerformance(o)))], o)
        ELSE LoopHead(f.ev, att, o)

\* variant of InnerCatch: sleep(retry.delayMs) is called and not awaited
InnerCatchSleepNotAwaited(ev, error, att, o) ==
    LET processedError == toError(error)
        f == LogAndNotify(ev, "Error occurred:", processedError, o)
    IN  IF f.out.kind = "throw"
        THEN Finish(OuterCatch(f.ev, f.out.error, o), o)
        ELSE IF att >= MaxRetriesOf(o)
        THEN Finish([ev |-> f.ev,
                     out |-> Value(WithPerformance(Failure(processedError),
                                                   TrackPerformance(o)))], o)
        ELSE IF DelayMs(o) # 0
        THEN LoopHead(Append(f.ev, SleepEv(DelayMs(o))), att, o)
        ELSE LoopHead(f.ev, att, o)

\* the inner catch (index.ts 324-346) after the increment of attempt
InnerCatch(ev, error, att, o) ==
    LET processedError == toError(error)
        f == LogAndNotify(ev, "Error occurred:", processedError, o)
    IN  IF f.out.kind = "throw"
        THEN Finish(OuterCatch(f.ev, f.out.error, o), o)
        ELSE IF att >= MaxRetriesOf(o)
        THEN Finish([ev |-> f.ev,
                     out |-> Value(WithPerformance(Failure(processedError),
                                                   TrackPerformance(o)))], o)
        ELSE IF DelayMs(o) # 0
        THEN /\ events' = Append(f.ev, SleepEv(DelayMs(o)))
             /\ pc' = "sleeping"
             /\ outcome' = NoOutcome
        ELSE LoopHead(f.ev, att, o)

\* variant of tryCatchResume: the global configuration is read again
tryCatchResumeReadsStoreAgain ==
    /\ executor = "tryCatch"
    /\ pc = "awaiting"
    /\ IsSettled(promises[1])
    /\ LET o == Merge(getGlobalTryCatchConfig, options)
           try == IF promises[1].state = "fulfilled"
                  THEN SelectAndBuild(events, promises[1].value, o)
                  ELSE [ev |-> events, out |-> Throw(promises[1].value)]
       IN  IF try.out.kind = "value"
           THEN Finish(try, o) /\ UNCHANGED attempt
           ELSE /\ attempt' = attempt + 1
                /\ InnerCatch(try.ev, try.out.error, attempt + 1, o)
    /\ UNCHANGED <<globalTryCatchConfig, lastConfig, call, executor, promises, completed,
                   settledAtCall, options, globalConfig, mergedOptions>>

\* variant of tryCatchResume: an exception of select is no failed attempt,
\* it goes to the outer catch
tryCatchResumeSelectNotRetried ==
    /\ executor = "tryCatch"
    /\ pc = "awaiting"
    /\ IsSettled(promises[1])
    /\ LET o == mergedOptions
           try == IF promises[1].state = "fulfilled"
                  THEN SelectAndBuild(events, promises[1].value, o)
                  ELSE [ev |-> events, out |-> Throw(promises[1].value)]
       IN  IF try.out.kind = "value"
           THEN Finish(try, o) /\ UNCHANGED attempt
           ELSE IF promises[1].state = "fulfilled"
           THEN Finish(OuterCatch(try.ev, try.out.error, o), o) /\ UNCHANGED attempt
           ELSE /\ attempt' = attempt + 1
                /\ InnerCatch(try.ev, try.out.error, attempt + 1, o)
    /\ UNCHANGED <<globalTryCatchConfig, lastConfig, call, executor, promises, completed,
                   settledAtCall, options, globalConfig, mergedOptions>>

\* the continuation of `await promiseFactory` once the promise is settled
tryCatchResume ==
    /\ executor = "tryCatch"
    /\ pc = "awaiting"
    /\ IsSettled(promises[1])
    /\ LET o == mergedOptions
           try == IF promises[1].state = "fulfilled"
                  THEN SelectAndBuild(events, promises[1].value, o)
                  ELSE [ev |-> events, out |-> Throw(promises[1].value)]
       IN  IF try.out.kind = "value"
           THEN Finish(try, o) /\ UNCHANGED attempt
           ELSE /\ attempt' = attempt + 1
                /\ InnerCatch(try.ev, try.out.error, attempt + 1, o)
    /\ UNCHANGED <<globalTryCatchConfig, lastConfig, call, executor, promises, completed,
                   settledAtCall, options, globalConfig, mergedOptions>>

\* the continuation of `await sleep(retry.delayMs)` once the timer fired
tryCatchWake ==
    /\ executor = "tryCatch"
    /\ pc = "sleeping"
    /\ LoopHead(Append(events, WakeEv), attempt, mergedOptions)
    /\ UNCHANGED <<globalTryCatchConfig, lastConfig, call, executor, promises, completed,
                   settledAtCall, options, globalConfig, mergedOptions, attempt>>

----------------------------------------------------------------------------
(* tryCatchAll(promises, options); `earlier` is the order in which the      *)
(* operations already settled at the call had settled                       *)

\* variant of FirstRejected: the rejected promise of lowest index
FirstRejectedLowestIndex(ps, obs) ==
    LET r == {i \in DOMAIN ps : ps[i].state = "rejected"}
    IN  IF r = {} THEN 0 ELSE CHOOSE i \in r : \A j \in r : i <= j

\* the promise whose rejection Promise.all observes first (0: none yet)
FirstRejected(ps, obs) ==
    LET r == SelectSeq(obs, LAMBDA i : ps[i].state = "rejected")
    IN  IF r = <<>> THEN 0 ELSE Head(r)

\* variant of PromiseAll: a rejection is delivered once every promise is settled
PromiseAllWaitsForAll(ps, obs) ==
    IF \E i \in DOMAIN ps : ~IsSettled(ps[i]) THEN Pending
    ELSE IF FirstRejected(ps, obs) # 0 THEN Rejected(ps[FirstRejected(ps, obs)].value)
    ELSE Fulfilled(Arr([i \in DOMAIN ps |-> ps[i].value]))

\* variant of PromiseAll: the values in the order of observation
PromiseAllCompletionOrder(ps, obs) ==
    IF FirstRejected(ps, obs) # 0 THEN Rejected(ps[FirstRejected(ps, obs)].value)
    ELSE IF \A i \in DOMAIN ps : ps[i].state = "fulfilled"
    THEN Fulfilled(Arr([k \in 1..Len(obs) |-> ps[obs[k]].value]))
    ELSE Pending

\* Promise.all(ps): rejected with the first rejection observed, fulfilled
\* with the values in the order of the input once all are fulfilled
PromiseAll(ps, obs) ==
    IF FirstRejected(ps, obs) # 0 THEN Rejected(ps[FirstRejected(ps, obs)].value)
    ELSE IF \A i \in DOMAIN ps : ps[i].state = "fulfilled"
    THEN Fulfilled(Arr([i \in DOMAIN ps |-> ps[i].value]))
    ELSE Pending

tryCatchAll(ps, earlier, opts) ==
    /\ CanCall
    /\ executor' = "tryCatchAll"
    /\ options' = opts
    /\ globalConfig' = getGlobalTryCatchConfig
    /\ mergedOptions' = Merge(getGlobalTryCatchConfig, opts)
    /\ promises' = ps
    /\ completed' = earlier
    /\ settledAtCall' = SettledIn(ps)
    /\ attempt' = 0
    /\ events' = <<AwaitEv>>
    /\ pc' = "awaiting"
    /\ outcome' = NoOutcome
    /\ UNCHANGED <<globalTryCatchConfig, lastConfig, call>>

\* the continuation of `await Promise.all(promises)`
tryCatchAllResume ==
    /\ executor = "tryCatchAll"
    /\ pc = "awaiting"
    /\ LET all == PromiseAll(promises, ObservationOrder(settledAtCall, completed))
           o == mergedOptions
       IN  /\ IsSettled(all)
           /\ IF all.state = "fulfilled"
              THEN Finish([ev |-> events,
                           out |-> Value(WithPerformance(Success(all.value),
                                                         TrackPerformance(o)))], o)
              ELSE Finish(CatchBlock(events, "Error occurred:", all.value, o), o)
    /\ UNCHANGED <<globalTryCatchConfig, lastConfig, call, executor, promises, completed,
                   settledAtCall, options, globalConfig, mergedOptions, attempt>>

----------------------------------------------------------------------------
(* tryCatchAllSafe(promises, options) *)

\* variant of PromiseAllSettled: fulfilled as soon as one promise is settled
PromiseAllSettledAny(ps) ==
    IF \E i \in DOMAIN ps : IsSettled(ps[i]) \/ ps = <<>> THEN Fulfilled(Arr(ps)) ELSE Pending

\* Promise.allSettled(ps): pending until every promise is settled, then
\* fulfilled with the settlements in the order of the input; never rejected
PromiseAllSettled(ps) ==
    IF \A i \in DOMAIN ps : IsSettled(ps[i]) THEN Fulfilled(Arr(ps)) ELSE Pending

\* variant of Index: positions counted from 1
IndexOneBased(i) == i

\* the index forEach passes for the entry at position i of a sequence
Index(i) == i - 1

EmptyPartialResults ==
    [successes |-> <<>>, errors |-> <<>>, successIndices |-> <<>>, errorIndices |-> <<>>]

RECURSIVE ForEach(_, _, _, _)
\* results.forEach((result, index) => ...) from the entry at position i on
\* (index = i - 1); acc holds partialResults, the events so far, and the
\* exception of onError once it raised, which ends the iteration
ForEach(i, results, acc, o) ==
    IF i > Len(results) THEN acc
    ELSE IF results[i].state = "fulfilled"
    THEN ForEach(i + 1, results,
                 [acc EXCEPT !.pr.successes = Append(@, results[i].value),
                             !.pr.successIndices = Append(@, Index(i))], o)
    ELSE LET error == toError(results[i].value)
             pr1 == [acc.pr EXCEPT !.errors = Append(@, error),
                                   !.errorIndices = Append(@, Index(i))]
             f == LogAndNotify(acc.ev, "Error at index " \o NumberToString(Index(i)) \o ":",
                               error, o)
         IN  IF f.out.kind = "throw"
             THEN [pr |-> pr1, ev |-> f.ev, out |-> f.out]
             ELSE ForEach(i + 1, results, [pr |-> pr1, ev |-> f.ev, out |-> NoOutcome], o)

\* variant of AllFailed: partialResults.errors.length !== 0
AllFailedWhenAnyFailed(pr) == Len(pr.errors) # 0

\* variant of AllFailed: an empty batch has not failed
AllFailedNonEmpty(pr) == Len(pr.successes) = 0 /\ Len(pr.errors) # 0

\* if (partialResults.successes.length === 0)
AllFailed(pr) == Len(pr.successes) = 0

\* variant of tryCatchAllSafeBody: the aggregate error is logged and passed
\* to onError as well
tryCatchAllSafeBodyNotifiesAggregate(results, ev, o) ==
    LET r == ForEach(1, results, [pr |-> EmptyPartialResults, ev |-> ev, out |-> NoOutcome], o)
        all == Err("All " \o NumberToString(Len(r.pr.errors)) \o " promises failed",
                   "tryCatchAllSafe")
    IN  IF r.out.kind = "throw"
        THEN CatchBlock(r.ev, "Unexpected error:", r.out.error, o)
        ELSE IF AllFailed(r.pr)
        THEN CatchBlock(r.ev, "Error occurred:", all, o)
        ELSE [ev |-> r.ev,
              out |-> Value(WithPerformance(Success(r.pr), TrackPerformance(o)))]

\* the body of the try block after the await (index.ts 450-498) and the
\* catch block (499-515) that takes over when onError raised inside forEach
tryCatchAllSafeBody(results, ev, o) ==
    LET r == ForEach(1, results, [pr |-> EmptyPartialResults, ev |-> ev, out |-> NoOutcome], o)
    IN  IF r.out.kind = "throw"
        THEN CatchBlock(r.ev, "Unexpected error:", r.out.error, o)
        ELSE IF AllFailed(r.pr)
        THEN [ev |-> r.ev,
              out |-> Value(WithPerformance(
                         Failure(Err("All " \o NumberToString(Len(r.pr.errors))
                                       \o " promises failed", "tryCatchAllSafe")),
                         TrackPerformance(o)))]
        ELSE [ev |-> r.ev,
              out |-> Value(WithPerformance(Success(r.pr), TrackPerformance(o)))]

tryCatchAllSafe(ps, earlier, opts) ==
    /\ CanCall
    /\ executor' = "tryCatchAllSafe"
    /\ options' = opts
    /\ globalConfig' = getGlobalTryCatchConfig
    /\ mergedOptions' = Merge(getGlobalTryCatchConfig, opts)
    /\ promises' = ps
    /\ completed' = earlier
    /\ settledAtCall' = SettledIn(ps)
    /\ attempt' = 0
    /\ events' = <<AwaitEv>>
    /\ pc' = "awaiting"
    /\ outcome' = NoOutcome
    /\ UNCHANGED <<globalTryCatchConfig, lastConfig, call>>

\* the continuation of `await Promise.allSettled(promises)`
tryCatchAllSafeResume ==
    /\ executor = "tryCatchAllSafe"
    /\ pc = "awaiting"
    /\ LET all == PromiseAllSettled(promises)
           o == mergedOptions
       IN  /\ IsSettled(all)
           /\ Finish(tryCatchAllSafeBody(all.value.items, events, o), o)
    /\ UNCHANGED <<globalTryCatchConfig, lastConfig, call, executor, promises, completed,
                   settledAtCall, options, globalConfig, mergedOptions, attempt>>

----------------------------------------------------------------------------
(* The environment *)

\* a pending operation of the current invocation settles
Settle(i, settlement) ==
    /\ i \in DOMAIN promises
    /\ promises[i].state = "pending"
    /\ promises' = [promises EXCEPT ![i] = settlement]
    /\ completed' = Append(completed, i)
    /\ UNCHANGED <<globalTryCatchConfig, lastConfig, call, executor, pc, settledAtCall, options,
                   globalConfig,
                   mergedOptions, attempt, events, outcome>>

\* the caller has taken the outcome of the invocation; the next one may start
Forget ==
    /\ pc = "done"
    /\ pc' = "idle"
    /\ executor' = "none"
    /\ promises' = <<>>
    /\ completed' = <<>>
    /\ settledAtCall' = {}
    /\ options' = <<>>
    /\ globalConfig' = <<>>
    /\ mergedOptions' = <<>>
    /\ attempt' = 0
    /\ events' = <<>>
    /\ outcome' = NoOutcome
    /\ UNCHANGED <<globalTryCatchConfig, lastConfig, call>>

----------------------------------------------------------------------------
(* Calls of the pure helpers toError, getErrorMessage and map.  `call`      *)
(* holds the argument, the transform handed to map (by name), the values    *)
(* successive applications returned, and the arguments fn was called with.  *)

NoCall == [helper |-> "none", argument |-> Null, fn |-> "none", results |-> <<>>, fnArgs |-> <<>>]

\* the result of an arithmetic operation on something that is no number
NaN == [type |-> "NaN"]

\* the transforms handed to map: x => x * 2, x => [x], x => null
ApplyTransform(name, v) ==
    CASE name = "double" -> IF ~Has(v, "type") THEN NaN
                            ELSE IF v.type = "number" THEN Num(v.val * 2)
                            ELSE IF v.type = "null" THEN Num(0)
                            ELSE NaN
      [] name = "wrap" -> Arr(<<v>>)
      [] name = "toNull" -> Null

\* the transform as a function over the values of D
Transform(name, D) == [v \in D |-> ApplyTransform(name, v)]

IsResult(a) == "status" \in DOMAIN a

\* toError(call.argument)
toErrorCall ==
    /\ call.helper = "none"
    /\ ~IsResult(call.argument)
    /\ call' = [call EXCEPT !.helper = "toError", !.results = <<toError(call.argument)>>]
    /\ UNCHANGED <<globalTryCatchConfig, lastConfig, executor, pc, promises, completed,
                   settledAtCall, options, globalConfig, mergedOptions, attempt, events, outcome>>

\* toError applied to what the previous toError returned
toErrorAgain ==
    /\ call.helper = "toError"
    /\ Len(call.results) = 1
    /\ call' = [call EXCEPT !.results = Append(@, toError(call.results[1]))]
    /\ UNCHANGED <<globalTryCatchConfig, lastConfig, executor, pc, promises, completed,
                   settledAtCall, options, globalConfig, mergedOptions, attempt, events, outcome>>

\* getErrorMessage(call.argument)
getErrorMessageCall ==
    /\ call.helper = "none"
    /\ ~IsResult(call.argument)
    /\ call' = [call EXCEPT !.helper = "getErrorMessage",
                            !.results = <<Str(getErrorMessage(call.argument))>>]
    /\ UNCHANGED <<globalTryCatchConfig, lastConfig, executor, pc, promises, completed,
                   settledAtCall, options, globalConfig, mergedOptions, attempt, events, outcome>>

\* the calls of fn that map(result, fn) makes: fn(result.data) in the
\* isSuccess branch, none otherwise
mapFnArgs(result) == IF isSuccess(result) THEN <<result.data>> ELSE <<>>

\* map(call.argument, fn)
mapCall ==
    /\ call.helper = "none"
    /\ IsResult(call.argument)
    /\ call' = [call EXCEPT !.helper = "map",
                            !.results = <<map(call.argument,
                                              Transform(call.fn, {call.argument.data}))>>,
                            !.fnArgs = mapFnArgs(call.argument)]
    /\ UNCHANGED <<globalTryCatchConfig, lastConfig, executor, pc, promises, completed,
                   settledAtCall, options, globalConfig, mergedOptions, attempt, events, outcome>>

----------------------------------------------------------------------------
(* The inputs the model draws from *)

\* what a failed operation rejects with (or a failed fn throws)
Reasons == {Str("x"), Err("boom", "user")}
\* The single operation of tryCatch, and what it settles with
Settlements == {Fulfilled(Num(1))} \cup {Rejected(r) : r \in Reasons}
Operations == {Pending, Hung} \cup Settlements
\* The operation at position i of a batch (index i - 1) yields the payload i
\* when it succeeds and rejects with an Error (odd i) or a string (even i)
\* when it fails, so that payloads and reasons tell the positions apart.
ReasonAt(i) == IF i % 2 = 1 THEN Err("boom", "user") ELSE Str("x")
SettlementsAt(i) == {Fulfilled(Num(i)), Rejected(ReasonAt(i))}
OperationsAt(i) == {Pending, Hung} \cup SettlementsAt(i)
FnCompletions == {Value(Num(1))} \cup {Throw(r) : r \in Reasons \cup {Duck("duck"), Num(42)}}

Batches ==
    UNION {{ps \in [1..n -> UNION {OperationsAt(i) : i \in 1..n}] :
               \A i \in 1..n : ps[i] \in OperationsAt(i)} : n \in 0..MaxBatch}

\* the orders in which the operations of ps that are settled at the call may
\* have settled before it
EarlierOrders(ps) ==
    LET S == SettledIn(ps)
    IN  {q \in [1..Cardinality(S) -> S] : \A j, k \in DOMAIN q : j # k => q[j] # q[k]}

RetryValues == {[retries |-> n] : n \in 0..MaxRetries}
                  \cup {[retries |-> n, delayMs |-> d] : n \in 0..MaxRetries, d \in {0, 10}}

BaseOptions ==
    Extend(Extend(Extend(Extend({<<>>}, "logError", {TRUE, FALSE}),
                  "onError", {"l_ok", "l_throw"}),
           "onFinally", {"l_ok", "l_throw"}),
    "performance", {TRUE})
\* the local options handed to the batch executors
BatchOptions ==
    Extend(Extend(Extend({<<>>}, "logError", {TRUE}),
                  "onError", {"l_ok", "l_throw", "l_throw_once"}),
           "onFinally", {"l_ok", "l_throw"})
SyncOptions == Extend(BaseOptions, "select", {"sel_ok", "sel_throw"})
AsyncOptions == Extend(SyncOptions, "retry", RetryValues)

GlobalConfigs ==
    {<<>>,
     [logError |-> TRUE, onError |-> "g_ok", onFinally |-> "g_ok", performance |-> TRUE,
      retry |-> [retries |-> 2, delayMs |-> 10]]}

----------------------------------------------------------------------------
(* The specification *)

Init ==
    /\ globalTryCatchConfig = <<>>
    /\ lastConfig = <<>>
    /\ executor = "none"
    /\ pc = "idle"
    /\ promises = <<>>
    /\ completed = <<>>
    /\ settledAtCall = {}
    /\ options = <<>>
    /\ globalConfig = <<>>
    /\ mergedOptions = <<>>
    /\ attempt = 0
    /\ events = <<>>
    /\ outcome = NoOutcome
    /\ call = NoCall

\* an executor is called only while no invocation is in progress (CanCall)
Next ==
    \/ \E c \in GlobalConfigs : setGlobalTryCatchConfig(c)
    \/ CanCall /\ \E f \in FnCompletions, o \in SyncOptions : tryCatchSync(f, o)
    \/ CanCall /\ \E p \in Operations, o \in AsyncOptions : tryCatch(p, o)
    \/ tryCatchResume
    \/ tryCatchWake
    \/ CanCall /\ \E ps \in Batches, o \in BatchOptions :
                    \E earlier \in EarlierOrders(ps) : tryCatchAll(ps, earlier, o)
    \/ tryCatchAllResume
    \/ CanCall /\ \E ps \in Batches, o \in BatchOptions :
                    \E earlier \in EarlierOrders(ps) : tryCatchAllSafe(ps, earlier, o)
    \/ tryCatchAllSafeResume
    \/ \E i \in DOMAIN promises :
          \E s \in (IF executor = "tryCatch" THEN Settlements ELSE SettlementsAt(i)) :
              Settle(i, s)
    \/ Forget

Spec == Init /\ [][Next]_vars

\* The asynchronous executors under the scheduler, with the global
\* configuration left empty and a few local options.  The scheduler runs a
\* continuation that is ready: the job of a settled promise and the callback
\* of a fired timer are queued and eventually run.
ScheduledBatchOptions ==
    {<<>>, [logError |-> TRUE, onError |-> "l_ok", onFinally |-> "l_ok"],
     [onError |-> "l_throw"], [onFinally |-> "l_throw"]}
ScheduledOptions ==
    Extend(ScheduledBatchOptions, "retry",
           {[retries |-> 0], [retries |-> MaxRetries, delayMs |-> 10]})

ScheduledNext ==
    \/ CanCall /\ \E p \in Operations, o \in ScheduledOptions : tryCatch(p, o)
    \/ tryCatchResume
    \/ tryCatchWake
    \/ CanCall /\ \E ps \in Batches, o \in ScheduledBatchOptions :
                    \E earlier \in EarlierOrders(ps) : tryCatchAll(ps, earlier, o)
    \/ tryCatchAllResume
    \/ CanCall /\ \E ps \in Batches, o \in ScheduledBatchOptions :
                    \E earlier \in EarlierOrders(ps) : tryCatchAllSafe(ps, earlier, o)
    \/ tryCatchAllSafeResume
    \/ \E i \in DOMAIN promises :
          \E s \in (IF executor = "tryCatch" THEN Settlements ELSE SettlementsAt(i)) :
              Settle(i, s)
    \/ Forget

ScheduledSpec ==
    /\ Init
    /\ [][ScheduledNext]_vars
    /\ WF_vars(tryCatchResume)
    /\ WF_vars(tryCatchWake)
    /\ WF_vars(tryCatchAllResume)
    /\ WF_vars(tryCatchAllSafeResume)

\* The pure helpers, each applied to an argument drawn at the start
HelperValues ==
    {Str("x"), Str(""), Num(42), Num(0), Null, Duck("duck"), Duck("x"),
     Err("boom", "user"), Err("", "user"), Err("x", "toError"),
     Err("Unexpected retry failure", "tryCatch")}
HelperResults ==
    LET plain == {Success(v) : v \in {Num(5), Num(0), Null, Str("x"), Arr(<<Num(1)>>)}}
                    \cup {Failure(e) : e \in {Err("boom", "user"), Err("x", "toError")}}
    IN  plain \cup {WithPerformance(r, TRUE) : r \in plain}
Transforms == {"double", "wrap", "toNull"}

HelperInit ==
    /\ globalTryCatchConfig = <<>>
    /\ lastConfig = <<>>
    /\ executor = "none"
    /\ pc = "idle"
    /\ promises = <<>>
    /\ completed = <<>>
    /\ settledAtCall = {}
    /\ options = <<>>
    /\ globalConfig = <<>>
    /\ mergedOptions = <<>>
    /\ attempt = 0
    /\ events = <<>>
    /\ outcome = NoOutcome
    /\ \E a \in HelperValues \cup HelperResults, f \in Transforms :
          call = [NoCall EXCEPT !.argument = a, !.fn = f]

HelperNext ==
    \/ toErrorCall
    \/ toErrorAgain
    \/ getErrorMessageCall
    \/ mapCall

HelperSpec == HelperInit /\ [][HelperNext]_vars

----------------------------------------------------------------------------
(* Vocabulary of the properties *)

\* the retry budget in effect: retries of the effective retry policy, 1 without one
Budget == IF "retry" \in DOMAIN mergedOptions THEN mergedOptions.retry.retries ELSE 1

\* no user callback (onError, onFinally, select) raised in this invocation
NoCallbackRaised ==
    \A i \in DOMAIN events :
        events[i].ev \in {"onError", "onFinally", "select"}
            => ~Raises(events[i].cb, SubSeq(events, 1, i - 1))

Returned == outcome.kind = "value"

----------------------------------------------------------------------------
(* C1 *)

----------------------------------------------------------------------------
(* C2 *)

\* C2: a supplied onFinally is invoked exactly once per invocation, on every
\* exit path, after every other effect of the invocation (the attempts, the
\* onError calls, select) and immediately before the outcome is handed back;
\* it is not invoked while the invocation is still running, and the outcome
\* is handed back only when the invocation is done.
C2_FinallyOnce ==
    /\ (outcome.kind # "none") <=> (pc = "done")
    /\ pc # "done" => Positions(events, "onFinally") = {}
    /\ pc = "done" =>
          /\ events[Len(events)].ev = "handback"
          /\ Positions(events, "handback") = {Len(events)}
          /\ IF "onFinally" \in DOMAIN mergedOptions
             THEN /\ Positions(events, "onFinally") = {Len(events) - 1}
                  /\ events[Len(events) - 1].cb = mergedOptions.onFinally
             ELSE Positions(events, "onFinally") = {}

\* tryCatch exhausted two attempts, called onError twice, then onFinally once
C2_Witness ==
    /\ executor = "tryCatch" /\ pc = "done"
    /\ Count(events, "await") = 2
    /\ Count(events, "onError") = 2
    /\ Count(events, "onFinally") = 1
    /\ \A i \in Positions(events, "onError") : i < Len(events) - 1
    /\ events[Len(events) - 1].ev = "onFinally"

----------------------------------------------------------------------------
(* C3 *)

\* the wrapped operation failed (the batch executors: some operation rejected)
OperationFailed ==
    CASE executor = "tryCatchSync" -> events[1].completion.kind = "throw"
      [] executor = "tryCatch" -> promises[1].state = "rejected"
      [] OTHER -> \E i \in DOMAIN promises : promises[i].state = "rejected"

\* C3: when no user callback raised, a finished invocation has returned an
\* outcome (tryCatchSync did not throw, the promise of the asynchronous
\* executors did not reject), and that outcome is a Failure when the
\* operation of tryCatchSync, tryCatch or tryCatchAll failed.
C3_NeverRethrown ==
    (pc = "done" /\ NoCallbackRaised) =>
        /\ Returned
        /\ outcome.result.status \in {"success", "failure"}
        /\ (executor # "tryCatchAllSafe" /\ OperationFailed) => isFailure(outcome.result)

\* fn threw a plain object; tryCatchSync returned a Failure
C3_Witness ==
    /\ executor = "tryCatchSync" /\ pc = "done"
    /\ events[1].completion = Throw(Duck("duck"))
    /\ NoCallbackRaised
    /\ Returned
    /\ outcome.result.error = Err("[object Object]", "toError")

----------------------------------------------------------------------------
(* C4 *)

\* the wrapped operation of tryCatchSync or tryCatch succeeded
OperationSucceeded ==
    CASE executor = "tryCatchSync" -> events[1].completion.kind = "value"
      [] executor = "tryCatch" -> promises[1].state = "fulfilled" /\ Budget >= 1
      [] OTHER -> FALSE

\* the value it succeeded with
OperationValue ==
    IF executor = "tryCatchSync" THEN events[1].completion.result ELSE promises[1].value

\* no select is given, or the one given does not raise
SelectDoesNotRaise == "select" \in DOMAIN mergedOptions => ~Throws(mergedOptions.select)

\* how often the operation was run (tryCatchSync) or awaited (tryCatch)
Runs == Count(events, "fn") + Count(events, "await")

----------------------------------------------------------------------------
(* C5 *)

StrictlyAscending(q) == \A j, k \in DOMAIN q : j < k => q[j] < q[k]

\* C5: whatever the order of completion, the data of a Success of
\* tryCatchAll holds at position i the payload of input operation i, and in
\* the PartialResults of a Success of tryCatchAllSafe successIndices and
\* errorIndices are strictly ascending, successes[k] is the payload of input
\* operation successIndices[k] and errors[k] is the normalized error of input
\* operation errorIndices[k].
C5_InputOrder ==
    (pc = "done" /\ Returned /\ isSuccess(outcome.result)) =>
        LET d == outcome.result.data
        IN  /\ executor = "tryCatchAll" =>
                  /\ Len(d.items) = Len(promises)
                  /\ \A i \in DOMAIN promises :
                        /\ promises[i].state = "fulfilled"
                        /\ d.items[i] = promises[i].value
            /\ executor = "tryCatchAllSafe" =>
                  /\ StrictlyAscending(d.successIndices)
                  /\ StrictlyAscending(d.errorIndices)
                  /\ Len(d.successes) = Len(d.successIndices)
                  /\ Len(d.errors) = Len(d.errorIndices)
                  /\ \A k \in DOMAIN d.successIndices :
                        /\ promises[d.successIndices[k] + 1].state = "fulfilled"
                        /\ d.successes[k] = promises[d.successIndices[k] + 1].value
                  /\ \A k \in DOMAIN d.errorIndices :
                        /\ promises[d.errorIndices[k] + 1].state = "rejected"
                        /\ d.errors[k] = toError(promises[d.errorIndices[k] + 1].value)

\* three operations completed in the order 2, 1, 0; the data is in input order
C5_Witness ==
    /\ executor = "tryCatchAll" /\ pc = "done"
    /\ completed = <<3, 2, 1>>
    /\ Returned
    /\ isSuccess(outcome.result)
    /\ outcome.result.data.items = <<Num(1), Num(2), Num(3)>>

----------------------------------------------------------------------------
(* C6 *)

SomeRejected == \E i \in DOMAIN promises : promises[i].state = "rejected"
RejectedAtCall == {i \in settledAtCall : promises[i].state = "rejected"}

\* the operation that rejected first
FirstCompletedRejection ==
    completed[CHOOSE k \in DOMAIN completed :
                 /\ promises[completed[k]].state = "rejected"
                 /\ \A j \in 1..(k - 1) : promises[completed[j]].state # "rejected"]

\* the rejected operation the batch fails with: of those already rejected at
\* the call the one with the lowest index, and when there is none the first
\* to reject after the call
FirstObservedRejection ==
    IF RejectedAtCall # {}
    THEN CHOOSE i \in RejectedAtCall : \A j \in RejectedAtCall : i <= j
    ELSE FirstCompletedRejection

----------------------------------------------------------------------------
(* C7 *)

\* C7: while some operation of a tryCatchAllSafe batch has not settled, the
\* executor is still suspended in its await: it has handed back no outcome
\* and has invoked neither onError nor onFinally (nor logged), even when
\* another operation has already rejected.
C7_NoShortCircuit ==
    (executor = "tryCatchAllSafe" /\ \E i \in DOMAIN promises : ~IsSettled(promises[i])) =>
        /\ pc = "awaiting"
        /\ outcome.kind = "none"
        /\ events = <<AwaitEv>>

\* one operation has rejected, another is still pending, onError is supplied
C7_Witness ==
    /\ executor = "tryCatchAllSafe"
    /\ "onError" \in DOMAIN mergedOptions
    /\ \E i \in DOMAIN promises : promises[i].state = "rejected"
    /\ \E i \in DOMAIN promises : promises[i].state = "pending"
    /\ pc = "awaiting"

----------------------------------------------------------------------------
(* C8 *)

Range(q) == {q[k] : k \in DOMAIN q}

\* C8: the PartialResults in a Success of tryCatchAllSafe for N operations
\* has as many successIndices as successes and as many errorIndices as
\* errors, without repetition, and the two sets of indices are disjoint and
\* together are exactly 0..N-1.
C8_Partition ==
    (pc = "done" /\ executor = "tryCatchAllSafe" /\ Returned /\ isSuccess(outcome.result)) =>
        LET d == outcome.result.data
        IN  /\ Len(d.successIndices) = Len(d.successes)
            /\ Len(d.errorIndices) = Len(d.errors)
            /\ Cardinality(Range(d.successIndices)) = Len(d.successIndices)
            /\ Cardinality(Range(d.errorIndices)) = Len(d.errorIndices)
            /\ Range(d.successIndices) \cap Range(d.errorIndices) = {}
            /\ Range(d.successIndices) \cup Range(d.errorIndices) = 0..(Len(promises) - 1)

\* [fulfilled 1, rejected "x", fulfilled 3]
C8_Witness ==
    /\ executor = "tryCatchAllSafe" /\ pc = "done"
    /\ promises = <<Fulfilled(Num(1)), Rejected(Str("x")), Fulfilled(Num(3))>>
    /\ Returned
    /\ outcome.result.data.successes = <<Num(1), Num(3)>>
    /\ outcome.result.data.successIndices = <<0, 2>>
    /\ outcome.result.data.errors = <<Err("x", "toError")>>
    /\ outcome.result.data.errorIndices = <<1>>

----------------------------------------------------------------------------
(* C9 *)

NoneFulfilled == \A i \in DOMAIN promises : promises[i].state # "fulfilled"

AllFailedMessage(n) ==
    CASE n = 0 -> "All 0 promises failed" [] n = 1 -> "All 1 promises failed"
      [] n = 2 -> "All 2 promises failed" [] n = 3 -> "All 3 promises failed"
      [] n = 4 -> "All 4 promises failed" [] n = 5 -> "All 5 promises failed"

----------------------------------------------------------------------------
(* C10 *)

OptionKeys == {"logError", "onError", "onFinally", "performance", "retry"}

\* the local value of key k when the local options have k, else the global one
Effective(k) == IF k \in DOMAIN options THEN options[k] ELSE globalConfig[k]
IsSet(k) == k \in DOMAIN options \/ k \in DOMAIN globalConfig

\* C10: the options an invocation works with are, key by key, the local
\* value when the key is in the local options and the global value
\* otherwise, and the invocation acts on them: it calls that onError and
\* that onFinally, logs exactly when that logError is true, and measures
\* the time exactly when that performance is true.
C10_MergePrecedence ==
    executor # "none" =>
        /\ \A k \in OptionKeys :
              IF IsSet(k) THEN k \in DOMAIN mergedOptions /\ mergedOptions[k] = Effective(k)
              ELSE k \notin DOMAIN mergedOptions
        /\ \A i \in Positions(events, "onError") :
              IsSet("onError") /\ events[i].cb = Effective("onError")
        /\ \A i \in Positions(events, "onFinally") :
              IsSet("onFinally") /\ events[i].cb = Effective("onFinally")
        /\ Positions(events, "log") # {} => (IsSet("logError") /\ Effective("logError"))
        /\ (Positions(events, "onError") # {} /\ IsSet("logError") /\ Effective("logError"))
              => Positions(events, "log") # {}
        /\ (pc = "done" /\ Returned) =>
              ("performance" \in DOMAIN outcome.result
                  <=> (IsSet("performance") /\ Effective("performance")))

\* global logError = true, local logError = false: the error went to the
\* global onError and was not logged
C10_Witness ==
    /\ executor = "tryCatch" /\ pc = "done"
    /\ "logError" \in DOMAIN globalConfig /\ globalConfig.logError
    /\ "logError" \in DOMAIN options /\ ~options.logError
    /\ Count(events, "onError") = 2
    /\ \A i \in Positions(events, "onError") : events[i].cb = "g_ok"
    /\ Count(events, "log") = 0

----------------------------------------------------------------------------
(* C11 *)

\* C11: at every moment getGlobalTryCatchConfig returns exactly the argument
\* of the most recent setGlobalTryCatchConfig call (the empty configuration
\* when there was none): it has the keys of that argument and no others, so
\* a key set by an earlier call and absent from the latest is not in effect.
C11_ReplacedWholesale ==
    /\ getGlobalTryCatchConfig = lastConfig
    /\ DOMAIN getGlobalTryCatchConfig = DOMAIN lastConfig

\* an invocation in progress has read a store holding a retry policy, set by
\* an earlier call; the latest call passed the empty configuration and the
\* store holds no key any more
C11_Witness ==
    /\ pc = "awaiting"
    /\ "retry" \in DOMAIN globalConfig
    /\ lastConfig = <<>>
    /\ DOMAIN getGlobalTryCatchConfig = {}

----------------------------------------------------------------------------
(* C12 *)

\* the onError invocations that raised
RaisedOnError ==
    {i \in Positions(events, "onError") : Raises(events[i].cb, SubSeq(events, 1, i - 1))}
FirstRaisedOnError == CHOOSE i \in RaisedOnError : \A j \in RaisedOnError : i <= j
OnFinallyRaised == \E i \in Positions(events, "onFinally") : Throws(events[i].cb)

\* C12 as stated: in each of the four executors, when onError raised, the
\* finished invocation has thrown (its promise has rejected) and has not
\* returned a Failure.
C12_AsStated ==
    (pc = "done" /\ RaisedOnError # {}) => outcome.kind = "throw"

\* C12 (amended): when onError raised, tryCatchSync and tryCatchAll throw;
\* tryCatch makes no further attempt and no further onError call and returns
\* a Failure carrying onError's exception; tryCatchAllSafe stops iterating,
\* logs (when logError is on) and calls onError a second time with onError's
\* exception, and returns a Failure carrying it unless the second call raised
\* too, and then throws.  What is thrown is onError's exception; a raising
\* onFinally replaces every one of these outcomes by its own exception.
C12_OnErrorException ==
    (pc = "done" /\ RaisedOnError # {}) =>
        LET first == FirstRaisedOnError
            e == CallbackError(events[first].cb)
            thrown == outcome = Throw(e)
            failure == /\ Returned
                       /\ isFailure(outcome.result)
                       /\ outcome.result.error = e
        IN  /\ OnFinallyRaised => outcome = Throw(CallbackError(mergedOptions.onFinally))
            /\ (~OnFinallyRaised /\ executor \in {"tryCatchSync", "tryCatchAll"}) => thrown
            /\ executor \in {"tryCatchSync", "tryCatchAll", "tryCatch"} =>
                  Count(events, "onError") = 1
            /\ executor = "tryCatch" =>
                  /\ \A i \in DOMAIN events :
                        i > first => events[i].ev \in {"onFinally", "handback"}
                  /\ ~OnFinallyRaised => failure
            /\ executor = "tryCatchAllSafe" =>
                  LET second == IF LogError(mergedOptions) THEN first + 2 ELSE first + 1
                  IN  /\ Positions(events, "onError") = {first, second}
                      /\ LogError(mergedOptions) =>
                            events[first + 1] = LogEv("Unexpected error:", e)
                      /\ events[second].err = e
                      /\ ~OnFinallyRaised =>
                            IF second \in RaisedOnError THEN thrown ELSE failure

\* tryCatch with a budget of three: onError raised at the first failed
\* attempt, and the call returned a Failure carrying onError's exception
C12_Witness ==
    /\ executor = "tryCatch" /\ pc = "done"
    /\ Budget = 3
    /\ RaisedOnError # {}
    /\ Count(events, "await") = 1
    /\ Returned
    /\ outcome.result.error = CallbackError("l_throw")

----------------------------------------------------------------------------
(* C13 *)

\* select was applied and raised
SelectRaised == \E i \in Positions(events, "select") : Throws(events[i].cb)

\* C13 as stated: when select raised on the value fn returned, tryCatchSync
\* has thrown instead of returning a Failure, after running onFinally.
C13_AsStated ==
    (pc = "done" /\ executor = "tryCatchSync" /\ SelectRaised) =>
        /\ outcome.kind = "throw"
        /\ "onFinally" \in DOMAIN mergedOptions => Count(events, "onFinally") = 1

\* C13 (amended): when select raised on the value fn returned, tryCatchSync
\* handles the exception as it handles a failure of fn: it logs it when
\* logError is on, passes it to onError, and returns a Failure carrying it;
\* onFinally still runs.  It throws only when onError or onFinally raised.
C13_SelectException ==
    (pc = "done" /\ executor = "tryCatchSync" /\ SelectRaised) =>
        LET e == CallbackError(mergedOptions.select)
        IN  /\ events[1].completion.kind = "value"
            /\ events[2] = SelectEv(mergedOptions.select)
            /\ Count(events, "log") = IF LogError(mergedOptions) THEN 1 ELSE 0
            /\ \A i \in Positions(events, "log") : events[i].err = e
            /\ Count(events, "onError") = IF "onError" \in DOMAIN mergedOptions THEN 1 ELSE 0
            /\ \A i \in Positions(events, "onError") : events[i].err = e
            /\ Count(events, "onFinally") = IF "onFinally" \in DOMAIN mergedOptions THEN 1 ELSE 0
            /\ IF RaisedOnError = {} /\ ~OnFinallyRaised
               THEN /\ Returned
                    /\ isFailure(outcome.result)
                    /\ outcome.result.error = e
               ELSE outcome.kind = "throw"

\* fn returned 1, select raised: the exception went to onError and came back
\* in a Failure, and onFinally ran
C13_Witness ==
    /\ executor = "tryCatchSync" /\ pc = "done"
    /\ events[1] = FnEv(Value(Num(1)))
    /\ SelectRaised
    /\ Count(events, "onError") = 1
    /\ Count(events, "onFinally") = 1
    /\ Returned
    /\ outcome.result.error = CallbackError("sel_throw")

----------------------------------------------------------------------------
(* C14 *)

\* exactly one of the type guards holds, and the tag determines the fields
WellFormed(r) ==
    /\ isSuccess(r) # isFailure(r)
    /\ r.status = "success" => r.error = Null
    /\ r.status = "failure" =>
          /\ r.data = Null
          /\ r.error # Null
          /\ IsError(r.error)

\* C14: every outcome an executor returned, and every outcome map makes of
\* it, satisfies exactly one of isSuccess and isFailure; when its status is
\* success its error is null, and when its status is failure its data is
\* null and its error is an Error, not null.
C14_TagExclusive ==
    (pc = "done" /\ Returned) =>
        /\ WellFormed(outcome.result)
        /\ \A f \in Transforms :
              WellFormed(map(outcome.result, Transform(f, {outcome.result.data})))

\* tryCatchAllSafe returned a Failure: isFailure holds, isSuccess does not,
\* data is null, and map returns a Failure as well
C14_Witness ==
    /\ executor = "tryCatchAllSafe" /\ pc = "done"
    /\ Returned
    /\ isFailure(outcome.result) /\ ~isSuccess(outcome.result)
    /\ outcome.result.data = Null
    /\ IsError(outcome.result.error)
    /\ isFailure(map(outcome.result, Transform("wrap", {outcome.result.data})))

----------------------------------------------------------------------------
(* C15 *)

\* C15: map(outcome, fn) returns the outcome it was given, unchanged, and
\* does not call fn when the outcome is a Failure; it calls fn once, with
\* outcome.data, and returns a Success with data fn(outcome.data) and error
\* null when the outcome is a Success; the status of what it returns is the
\* status of what it was given.
C15_Map ==
    call.helper = "map" =>
        LET r == call.argument
            m == call.results[1]
        IN  /\ isFailure(r) => (m = r /\ call.fnArgs = <<>>)
            /\ isSuccess(r) =>
                  /\ isSuccess(m)
                  /\ m.data = ApplyTransform(call.fn, r.data)
                  /\ m.error = Null
                  /\ call.fnArgs = <<r.data>>
            /\ m.status = r.status

\* map(Success(5), x => x * 2) returned Success(10)
C15_Witness ==
    /\ call.helper = "map"
    /\ call.argument = Success(Num(5))
    /\ call.fn = "double"
    /\ call.results = <<Success(Num(10))>>
    /\ call.fnArgs = <<Num(5)>>

----------------------------------------------------------------------------
(* C16 *)

\* C16 as stated: toError returns its argument when the argument carries a
\* message, and otherwise a new Error whose message is String(argument).
C16_AsStated ==
    call.helper = "toError" =>
        IF "message" \in DOMAIN call.argument
        THEN call.results[1] = call.argument
        ELSE call.results[1] = Err(String(call.argument), "toError")

\* C16 (amended): toError returns its argument when the argument is an Error
\* instance, and otherwise (also for an object that carries a message and is
\* no Error instance) a new Error whose message is String(argument).
C16_ToError ==
    call.helper = "toError" =>
        IF IsError(call.argument)
        THEN call.results[1] = call.argument
        ELSE /\ call.results[1] = Err(String(call.argument), "toError")
             /\ call.results[1] # call.argument

\* toError({ message: "duck" }) returned a new Error with the message
\* "[object Object]"
C16_Witness ==
    /\ call.helper = "toError"
    /\ call.argument = Duck("duck")
    /\ call.results[1] = Err("[object Object]", "toError")

----------------------------------------------------------------------------
(* C17 *)

\* C17: toError applied to what toError returned returns that same value.
C17_Idempotent ==
    (call.helper = "toError" /\ Len(call.results) = 2) => call.results[2] = call.results[1]

\* toError("x") made a new Error; toError of that Error returned it
C17_Witness ==
    /\ call.helper = "toError"
    /\ call.argument = Str("x")
    /\ call.results = <<Err("x", "toError"), Err("x", "toError")>>

----------------------------------------------------------------------------
(* C18 *)

\* an attempt of tryCatch fails when the operation rejected, or when it
\* fulfilled and select raised on its value
AttemptFails ==
    \/ promises[1].state = "rejected"
    \/ /\ promises[1].state = "fulfilled"
       /\ "select" \in DOMAIN mergedOptions
       /\ Throws(mergedOptions.select)

\* the normalized error of a failed attempt
AttemptError ==
    IF promises[1].state = "rejected" THEN toError(promises[1].value)
    ELSE CallbackError(mergedOptions.select)

\* what tryCatch does between two attempts, the first of which failed with
\* error e: (select, when it is what failed,) log, onError, and the delay
\* from its start until its timer fired
BetweenAttempts(e) ==
    (IF promises[1].state = "fulfilled" THEN <<SelectEv(mergedOptions.select)>> ELSE <<>>)
    \o (IF LogError(mergedOptions) THEN <<LogEv("Error occurred:", e)>> ELSE <<>>)
    \o (IF "onError" \in DOMAIN mergedOptions
        THEN <<OnErrorEv(mergedOptions.onError, e)>> ELSE <<>>)
    \o (IF DelayMs(mergedOptions) # 0
        THEN <<SleepEv(DelayMs(mergedOptions)), WakeEv>> ELSE <<>>)

\* the last await before position i
PreviousAwait(i) ==
    CHOOSE p \in Positions(events, "await") :
        p < i /\ \A q \in Positions(events, "await") : q < i => q <= p

\* C18: in a tryCatch invocation at most one attempt is in flight: while it
\* awaits the operation, all earlier attempts have failed and been counted,
\* and while it sleeps none is in flight.  Every attempt after the first
\* begins only after the previous one failed (the operation rejected, or
\* select raised on its value), its error was logged and
\* passed to onError, which returned, and the delay (when there is one) was
\* started and its timer fired, in that order and with nothing else between.
C18_Sequential ==
    executor = "tryCatch" =>
        /\ pc = "awaiting" =>
              /\ Count(events, "await") = attempt + 1
              /\ events[Len(events)] = AwaitEv
        /\ pc = "sleeping" =>
              /\ Count(events, "await") = attempt
              /\ events[Len(events)].ev = "sleep"
        /\ \A i \in Positions(events, "await") :
              i > 1 =>
                  /\ AttemptFails
                  /\ SubSeq(events, PreviousAwait(i) + 1, i - 1) = BetweenAttempts(AttemptError)

\* the third attempt is in flight, after two failed attempts, two onError
\* calls and two delays
C18_Witness ==
    /\ executor = "tryCatch" /\ pc = "awaiting"
    /\ attempt = 2
    /\ Count(events, "await") = 3
    /\ Count(events, "onError") = 2
    /\ Count(events, "sleep") = 2
    /\ Count(events, "wake") = 2

----------------------------------------------------------------------------
(* C19 *)

\* the events from the latest await before position i up to position i
AttemptUpTo(i) == SubSeq(events, PreviousAwait(i), i)

\* C19: in tryCatch with a retry budget n >= 1 and an onError, onError has
\* been invoked exactly once for each attempt that failed so far: with that
\* attempt's normalized error, right after the failure (and its log), before
\* anything else happens.  When logError is on there is one log per failed
\* attempt as well.  So when all n attempts have failed there have been n
\* onError invocations and n logs.
C19_OnErrorPerAttempt ==
    (executor = "tryCatch" /\ Budget >= 1) =>
        /\ Count(events, "onError") = IF "onError" \in DOMAIN mergedOptions THEN attempt ELSE 0
        /\ Count(events, "log") = IF LogError(mergedOptions) THEN attempt ELSE 0
        /\ \A i \in Positions(events, "onError") :
              /\ AttemptFails
              /\ events[i] = OnErrorEv(mergedOptions.onError, AttemptError)
              /\ IsError(events[i].err)
              /\ AttemptUpTo(i) =
                    <<AwaitEv>>
                    \o (IF promises[1].state = "fulfilled"
                        THEN <<SelectEv(mergedOptions.select)>> ELSE <<>>)
                    \o (IF LogError(mergedOptions)
                        THEN <<LogEv("Error occurred:", AttemptError)>> ELSE <<>>)
                    \o <<events[i]>>
        /\ (pc = "done" /\ attempt = Budget) =>
              /\ "onError" \in DOMAIN mergedOptions => Count(events, "onError") = Budget
              /\ LogError(mergedOptions) => Count(events, "log") = Budget

\* three attempts failed: three onError invocations and three logs
C19_Witness ==
    /\ executor = "tryCatch" /\ pc = "done"
    /\ Budget = 3
    /\ attempt = 3
    /\ Count(events, "await") = 3
    /\ Count(events, "onError") = 3
    /\ Count(events, "log") = 3
    /\ Returned
    /\ isFailure(outcome.result)

----------------------------------------------------------------------------
(* C20 *)

\* the delay of the effective retry policy, 0 when it has none
ConfiguredDelay ==
    IF "retry" \in DOMAIN mergedOptions /\ "delayMs" \in DOMAIN mergedOptions.retry
    THEN mergedOptions.retry.delayMs
    ELSE 0

\* C20: in tryCatch, with delayMs absent or 0 there is never a delay.  With
\* delayMs > 0 every delay lasts delayMs, follows a failed attempt and is
\* followed by the next attempt once its timer fired: there are as many
\* delays as failed attempts while the invocation sleeps or awaits, and when
\* all n >= 1 attempts have failed there were n - 1 delays, none after the
\* last attempt.
C20_DelayBetweenAttempts ==
    executor = "tryCatch" =>
        /\ ConfiguredDelay = 0 => Count(events, "sleep") = 0
        /\ ConfiguredDelay > 0 =>
              /\ \A i \in Positions(events, "sleep") :
                    /\ events[i] = SleepEv(ConfiguredDelay)
                    /\ AttemptFails
                    /\ PreviousAwait(i) < i
                    /\ i < Len(events) =>
                          (events[i + 1] = WakeEv /\ events[i + 2] = AwaitEv)
              /\ pc \in {"awaiting", "sleeping"} => Count(events, "sleep") = attempt
              /\ pc = "sleeping" => attempt < Budget
              /\ (pc = "done" /\ Budget >= 1 /\ attempt = Budget) =>
                    /\ Count(events, "sleep") = Budget - 1
                    /\ \A i \in Positions(events, "sleep") :
                          \E j \in Positions(events, "await") : j > i

\* three attempts failed with delayMs = 10: two delays, none after the third
C20_Witness ==
    /\ executor = "tryCatch" /\ pc = "done"
    /\ ConfiguredDelay = 10
    /\ Budget = 3
    /\ attempt = 3
    /\ Count(events, "await") = 3
    /\ Count(events, "sleep") = 2
    /\ Returned
    /\ isFailure(outcome.result)

----------------------------------------------------------------------------
(* C21 *)

RECURSIVE PerFailingEntry(_)
\* the logs and onError invocations for the rejected operations from
\* position i on, in ascending order of index
PerFailingEntry(i) ==
    IF i > Len(promises) THEN <<>>
    ELSE IF promises[i].state # "rejected" THEN PerFailingEntry(i + 1)
    ELSE LET e == toError(promises[i].value)
         IN  (IF LogError(mergedOptions)
              THEN <<LogEv("Error at index " \o NumberToString(i - 1) \o ":", e)>> ELSE <<>>)
             \o (IF "onError" \in DOMAIN mergedOptions
                 THEN <<OnErrorEv(mergedOptions.onError, e)>> ELSE <<>>)
             \o PerFailingEntry(i + 1)

\* the logs and onError invocations of the invocation, in order
LogsAndNotifications == SelectSeq(events, LAMBDA x : x.ev \in {"log", "onError"})

NumberRejected == Cardinality({i \in DOMAIN promises : promises[i].state = "rejected"})

----------------------------------------------------------------------------
(* C22 *)

\* some operation of the invocation never settles
HasHung == \E i \in DOMAIN promises : promises[i] = Hung

\* what C22 says of finished and unfinished invocations with a hung operation
HungSafety(callbacksReturn, budgetAtLeast1) ==
    /\ (executor = "tryCatchAll" /\ HasHung) =>
          /\ ~SomeRejected => pc = "awaiting"
          /\ (pc = "done" /\ callbacksReturn) =>
                /\ Returned
                /\ isFailure(outcome.result)
                /\ Count(events, "onFinally")
                      = IF "onFinally" \in DOMAIN mergedOptions THEN 1 ELSE 0
    /\ (executor = "tryCatchAllSafe" /\ HasHung) =>
          /\ pc = "awaiting"
          /\ Count(events, "onError") = 0
          /\ Count(events, "onFinally") = 0
    /\ (executor = "tryCatch" /\ HasHung /\ budgetAtLeast1) =>
          /\ pc = "awaiting"
          /\ outcome = NoOutcome

----------------------------------------------------------------------------
(* C23 *)

\* event e is what an invocation working with the options o does
UsesOptions(e, o) ==
    /\ e.ev \in {"onError", "onFinally", "select"} => (e.ev \in DOMAIN o /\ e.cb = o[e.ev])
    /\ e.ev = "log" => ("logError" \in DOMAIN o /\ o.logError)
    /\ e.ev = "sleep" =>
          ("retry" \in DOMAIN o /\ "delayMs" \in DOMAIN o.retry /\ e.ms = o.retry.delayMs)

\* the options an invocation with the local options l works with when the
\* latest setGlobalTryCatchConfig call before its start passed g
FixedAtStart(g, l) ==
    [k \in DOMAIN g \cup DOMAIN l |-> IF k \in DOMAIN l THEN l[k] ELSE g[k]]

----------------------------------------------------------------------------
(* C24 *)

\* what C24 says of a tryCatch invocation with a retry budget below 1
BudgetBelow1(onFinallyReturns) ==
    (executor = "tryCatch" /\ Budget < 1) =>
        /\ pc = "done"
        /\ Count(events, "await") = 0
        /\ Count(events, "select") = 0
        /\ Count(events, "onError") = 0
        /\ Count(events, "log") = 0
        /\ Count(events, "onFinally") = IF "onFinally" \in DOMAIN mergedOptions THEN 1 ELSE 0
        /\ onFinallyReturns =>
              /\ Returned
              /\ isFailure(outcome.result)
              /\ outcome.result.error.message = "Unexpected retry failure"

----------------------------------------------------------------------------
(* C25 *)

\* what C25 says of a tryCatch invocation in which select raised: the
\* operation fulfilled; every invocation of select follows an await of the
\* operation and is followed by the log (when logError is on) and the onError
\* call (when there is one) with select's exception, which is an Error and is
\* what toError makes of it; each of them counted as one attempt; the next
\* attempt, when there is one, follows the delay; and when the invocation is
\* over and the callbacks returned, all attempts of the budget were made and
\* the result is a Failure carrying select's exception.
SelectFailure(callbacksReturn) ==
    (executor = "tryCatch" /\ SelectRaised) =>
        LET e == CallbackError(mergedOptions.select)
        IN  /\ promises[1].state = "fulfilled"
            /\ IsError(e) /\ toError(e) = e
            /\ Count(events, "select") = attempt
            /\ attempt <= Budget
            /\ \A i \in Positions(events, "select") :
                  /\ events[i] = SelectEv(mergedOptions.select)
                  /\ events[i - 1] = AwaitEv
                  /\ LogError(mergedOptions) => events[i + 1] = LogEv("Error occurred:", e)
                  /\ "onError" \in DOMAIN mergedOptions =>
                        events[i + (IF LogError(mergedOptions) THEN 2 ELSE 1)]
                            = OnErrorEv(mergedOptions.onError, e)
            /\ \A i \in Positions(events, "await") :
                  i > 1 => SubSeq(events, PreviousAwait(i) + 1, i - 1) = BetweenAttempts(e)
            /\ pc \in {"awaiting", "sleeping"} => attempt < Budget
            /\ (pc = "done" /\ callbacksReturn) =>
                  /\ attempt = Budget
                  /\ Count(events, "await") = Budget
                  /\ Returned
                  /\ isFailure(outcome.result)
                  /\ outcome.result.error = e

----------------------------------------------------------------------------
(* C26 *)

\* what C26 says of a finished batch executor that was given an empty batch
EmptyBatch(onFinallyReturns) ==
    (pc = "done" /\ executor \in {"tryCatchAll", "tryCatchAllSafe"} /\ Len(promises) = 0) =>
        /\ Count(events, "onError") = 0
        /\ Count(events, "log") = 0
        /\ Count(events, "onFinally") = IF "onFinally" \in DOMAIN mergedOptions THEN 1 ELSE 0
        /\ onFinallyReturns =>
              /\ Returned
              /\ executor = "tryCatchAll" =>
                    /\ isSuccess(outcome.result)
                    /\ outcome.result.data = Arr(<<>>)
              /\ executor = "tryCatchAllSafe" =>
                    /\ isFailure(outcome.result)
                    /\ outcome.result.error.message = AllFailedMessage(0)

====
